---- MODULE Spec2Model ----
(***************************************************************************)
(* Static-analysis core of version_02_py_sophisticated: the dependency     *)
(* mapper (analyzers/dependency_mapper.py) and the code analyzer           *)
(* (analyzers/code_analyzer.py).                                           *)
(*                                                                         *)
(* Python strings are sequences of one-character strings, so that          *)
(* str.startswith and str.split('.') are computed as the code computes     *)
(* them.  A Python dict is a sequence of <<key, value>> entries in         *)
(* insertion order; assigning an existing key keeps its position.          *)
(***************************************************************************)
EXTENDS Integers, Sequences, FiniteSets, TLC

VARIABLES
    fs,                \* the file system: path -> content
    project_root,      \* DependencyMapper.project_root
    modules,           \* DependencyMapper.modules   (dict: str(path) -> ModuleInfo)
    dependency_graph,  \* DependencyMapper.dependency_graph (dict: name -> node)
    last,              \* the last public call on the mapper and what it returned
    ncalls,            \* number of public calls made on the mapper
    nedits,            \* number of file-system edits made by the environment
    cycles,            \* result of the last _find_circular_dependencies call
    tree,              \* CodeAnalyzer: the file given to analyze_file
    analysis           \* CodeAnalyzer.analyze_file: what the call produced

vars == <<fs, project_root, modules, dependency_graph, last, ncalls, nedits,
          cycles, tree, analysis>>

mapperVars == <<fs, project_root, modules, dependency_graph, last, ncalls, nedits, cycles>>
analyzerVars == <<tree, analysis>>

(***************************************************************************)
(* Bounds of the model.                                                    *)
(***************************************************************************)
MaxCalls == 2    \* public calls made on one mapper
MaxEdits == 1    \* file-system edits between the calls
MaxDeps == 3     \* Dependency records of a drawn module set
MaxTree == 2     \* nodes of a drawn syntax tree below the Module node

(***************************************************************************)
(* Strings.                                                                *)
(***************************************************************************)
sA == <<"a">>
sB == <<"b">>
sC == <<"c">>
sAB == <<"a", "b">>
sOS == <<"o", "s">>
sDot == <<".">>

Min(S) == CHOOSE x \in S : \A y \in S : x <= y

Range(s) == {s[i] : i \in 1..Len(s)}

\* str.startswith
StartsWith(t, p) == Len(p) <= Len(t) /\ SubSeq(t, 1, Len(p)) = p

\* target.split('.')[0]
SplitDotFirst(t) ==
    LET dots == {i \in 1..Len(t) : t[i] = "."}
    IN  IF dots = {} THEN t ELSE SubSeq(t, 1, Min(dots) - 1)

\* '.'.join(parts)
RECURSIVE JoinDot(_)
JoinDot(parts) ==
    IF parts = <<>> THEN <<>>
    ELSE IF Len(parts) = 1 THEN parts[1]
    ELSE parts[1] \o sDot \o JoinDot(Tail(parts))

\* the index taken to be that of the first element
IndexOf_First(s, x) == 1

\* list.index: the first position of x in s
IndexOf(s, x) == Min({i \in 1..Len(s) : s[i] = x})

(***************************************************************************)
(* Insertion-ordered dicts.                                                *)
(***************************************************************************)
DictKeys(d) == {d[i][1] : i \in 1..Len(d)}
DictHas(d, k) == k \in DictKeys(d)
DictPos(d, k) == CHOOSE i \in 1..Len(d) : d[i][1] = k
DictGet(d, k) == d[DictPos(d, k)][2]
DictSet(d, k, v) ==
    IF DictHas(d, k) THEN [d EXCEPT ![DictPos(d, k)] = <<k, v>>]
    ELSE Append(d, <<k, v>>)

(***************************************************************************)
(* DependencyMapper.__init__: the builtin-module set.                      *)
(***************************************************************************)
builtin_modules == {
    <<"o","s">>, <<"s","y","s">>, <<"j","s","o","n">>,
    <<"d","a","t","e","t","i","m","e">>, <<"p","a","t","h","l","i","b">>,
    <<"t","y","p","i","n","g">>, <<"r","e">>,
    <<"c","o","l","l","e","c","t","i","o","n","s">>,
    <<"i","t","e","r","t","o","o","l","s">>,
    <<"f","u","n","c","t","o","o","l","s">>,
    <<"o","p","e","r","a","t","o","r">>, <<"m","a","t","h">>,
    <<"r","a","n","d","o","m">>, <<"s","t","r","i","n","g">>,
    <<"t","i","m","e">>, <<"u","r","l","l","i","b">>, <<"h","t","t","p">>,
    <<"e","m","a","i","l">>, <<"h","t","m","l">>, <<"x","m","l">>,
    <<"c","s","v">>, <<"s","q","l","i","t","e","3">>,
    <<"l","o","g","g","i","n","g">>, <<"u","n","i","t","t","e","s","t">>,
    <<"a","r","g","p","a","r","s","e">>,
    <<"c","o","n","f","i","g","p","a","r","s","e","r">>, <<"i","o">>,
    <<"t","e","m","p","f","i","l","e">>, <<"s","h","u","t","i","l">>,
    <<"g","l","o","b">>, <<"f","n","m","a","t","c","h">>,
    <<"p","i","c","k","l","e">>, <<"c","o","p","y">>,
    <<"p","p","r","i","n","t">>, <<"t","e","x","t","w","r","a","p">>,
    <<"u","n","i","c","o","d","e","d","a","t","a">>,
    <<"c","o","d","e","c","s">>, <<"b","a","s","e","6","4">>,
    <<"b","i","n","a","s","c","i","i">>, <<"s","t","r","u","c","t">>,
    <<"a","r","r","a","y">>, <<"w","e","a","k","r","e","f">>, <<"g","c">>,
    <<"i","n","s","p","e","c","t">>, <<"d","i","s">>, <<"a","s","t">>,
    <<"k","e","y","w","o","r","d">>, <<"t","o","k","e","n">>,
    <<"t","o","k","e","n","i","z","e">>,
    <<"t","r","a","c","e","b","a","c","k">>
    }

INTERNAL == "internal"
EXTERNAL == "external"
BUILTIN == "builtin"

\* _get_project_modules
Get_project_modules(mods) == [i \in 1..Len(mods) |-> mods[i][2].name]

\* the classification with the project-module check made before the builtin check
Determine_scope_InternalFirst(target, mods) ==
    IF \E i \in 1..Len(mods) : StartsWith(target, mods[i][2].name) THEN INTERNAL
    ELSE IF SplitDotFirst(target) \in builtin_modules THEN BUILTIN
    ELSE IF StartsWith(target, sDot) THEN INTERNAL
    ELSE EXTERNAL

\* _determine_scope, on the mapper's modules at the time of the call
Determine_scope(target, mods) ==
    IF SplitDotFirst(target) \in builtin_modules THEN BUILTIN
    ELSE IF \E i \in 1..Len(mods) : StartsWith(target, mods[i][2].name) THEN INTERNAL
    ELSE IF StartsWith(target, sDot)
            \/ \E name \in Range(Get_project_modules(mods)) : StartsWith(target, name)
         THEN INTERNAL
    ELSE EXTERNAL

(***************************************************************************)
(* Files.  A path is a root directory and the parts below it, the last     *)
(* part being the stem of a .py file.  A file is absent, unreadable        *)
(* (exists, open() fails), broken (ast.parse raises SyntaxError) or valid, *)
(* with the Import / Call nodes of its tree in ast.walk order.             *)
(***************************************************************************)
Roots == {"p", "q"}

p_a == [root |-> "p", rel |-> <<sA>>]
p_b == [root |-> "p", rel |-> <<sB>>]
p_c == [root |-> "p", rel |-> <<sC>>]

Paths == {p_a, p_b, p_c}

Imp(t, ln) == [kind |-> "Import", name |-> t, lineno |-> ln]
Call(t, ln) == [kind |-> "Call", name |-> t, lineno |-> ln]

Absent == [state |-> "absent", nodes |-> <<>>]
Unreadable == [state |-> "unreadable", nodes |-> <<>>]
Broken == [state |-> "broken", nodes |-> <<>>]
Source(nodes) == [state |-> "valid", nodes |-> nodes]

Contents(p) ==
    IF p = p_a THEN {Absent, Broken, Source(<<Imp(sB, 1)>>), Source(<<Imp(sOS, 1), Call(sAB, 2)>>)}
    ELSE IF p = p_b THEN {Absent, Unreadable, Source(<<Imp(sC, 1)>>),
                          Source(<<Imp(sA, 1), Imp(sA, 2)>>)}
    ELSE {Absent, Source(<<Imp(sA, 1)>>)}

Parses(c) == c.state = "valid"

\* FileUtils.list_files(root, "**/*.py", recursive=True), as a set
List_files(f, root) == {p \in Paths : p.root = root /\ f[p] # Absent}

\* the orders in which rglob may yield a set of files
Orders(S) == {o \in [1..Cardinality(S) -> S] : \A i, j \in 1..Cardinality(S) : o[i] = o[j] => i = j}

\* _get_module_name
Get_module_name(file_path, root) ==
    IF file_path.root = root
    THEN LET rel == file_path.rel
             stem == rel[Len(rel)]
             module_parts == IF stem # <<"_","_","i","n","i","t","_","_">>
                             THEN rel ELSE SubSeq(rel, 1, Len(rel) - 1)
         IN  IF module_parts # <<>> THEN JoinDot(module_parts) ELSE stem
    ELSE file_path.rel[Len(file_path.rel)]

(***************************************************************************)
(* DependencyMapper.analyze_file and its extraction helpers.               *)
(***************************************************************************)
\* _extract_imports: list(set(imports)), an unordered collection
Extract_imports(content) ==
    {content[i].name : i \in {j \in 1..Len(content) : content[j].kind = "Import"}}

\* the Dependency record _extract_dependencies appends for one node
DependencyOf(node, source_module, mods) ==
    [source |-> source_module,
     target |-> node.name,
     dependency_type |-> IF node.kind = "Import" THEN "import" ELSE "function_call",
     scope |-> Determine_scope(node.name, mods),
     line_number |-> node.lineno]

\* _extract_dependencies
Extract_dependencies(content, file_path, root, mods) ==
    [i \in 1..Len(content) |->
        DependencyOf(content[i], Get_module_name(file_path, root), mods)]

\* analyze_file: the exception it raises ("none" if it returns), the
\* ModuleInfo it returns and self.modules after the call
Analyze_file(f, root, mods, file_path) ==
    IF f[file_path].state = "absent"
    THEN [raised |-> "FileNotFoundError", modules |-> mods]
    ELSE IF f[file_path].state = "unreadable"
    THEN [raised |-> "FileOperationError", modules |-> mods]
    ELSE IF f[file_path].state = "broken"
    THEN [raised |-> "SyntaxError", modules |-> mods]
    ELSE LET module_info ==
                 [path |-> file_path,
                  name |-> Get_module_name(file_path, root),
                  imports |-> Extract_imports(f[file_path].nodes),
                  exports |-> <<>>,
                  functions |-> <<>>,
                  classes |-> <<>>,
                  dependencies |-> Extract_dependencies(f[file_path].nodes, file_path, root, mods)]
         IN  [raised |-> "none",
              value |-> module_info,
              modules |-> DictSet(mods, file_path, module_info)]

\* the loop without its try/except: the first failing file ends the loop
RECURSIVE AnalyzeAll_NoCatch(_, _, _, _)
AnalyzeAll_NoCatch(f, root, mods, python_files) ==
    IF python_files = <<>> THEN mods
    ELSE IF Analyze_file(f, root, mods, Head(python_files)).raised # "none" THEN mods
    ELSE AnalyzeAll_NoCatch(f, root, Analyze_file(f, root, mods, Head(python_files)).modules,
                            Tail(python_files))

\* the loop of analyze_project over python_files: every exception is caught
RECURSIVE AnalyzeAll(_, _, _, _)
AnalyzeAll(f, root, mods, python_files) ==
    IF python_files = <<>> THEN mods
    ELSE AnalyzeAll(f, root, Analyze_file(f, root, mods, Head(python_files)).modules,
                    Tail(python_files))

(***************************************************************************)
(* _build_dependency_graph.                                                *)
(***************************************************************************)
EmptyNode ==
    [dependencies |-> <<>>, dependents |-> <<>>, internal_deps |-> <<>>,
     external_deps |-> <<>>, builtin_deps |-> <<>>]

\* the inner loop over module_info.dependencies
RECURSIVE AddDeps(_, _)
AddDeps(node, deps) ==
    IF deps = <<>> THEN node
    ELSE LET dep == Head(deps)
             n1 == [node EXCEPT !.dependencies = Append(@, dep.target)]
             n2 == IF dep.scope = INTERNAL
                   THEN [n1 EXCEPT !.internal_deps = Append(@, dep.target)]
                   ELSE IF dep.scope = EXTERNAL
                   THEN [n1 EXCEPT !.external_deps = Append(@, dep.target)]
                   ELSE [n1 EXCEPT !.builtin_deps = Append(@, dep.target)]
         IN  AddDeps(n2, Tail(deps))

\* the first loop: one node per module name, in the order of self.modules
RECURSIVE BuildNodes(_, _)
BuildNodes(graph, mods) ==
    IF mods = <<>> THEN graph
    ELSE LET module_info == Head(mods)[2]
         IN  BuildNodes(DictSet(graph, module_info.name,
                                AddDeps(EmptyNode, module_info.dependencies)),
                        Tail(mods))

\* the second loop: for the k-th node and its j-th dependency, append the
\* node's name to the dependents of the target when the target is a node
RECURSIVE BuildDependents(_, _, _)
BuildDependents(graph, k, j) ==
    IF k > Len(graph) THEN graph
    ELSE IF j > Len(graph[k][2].dependencies) THEN BuildDependents(graph, k + 1, 1)
    ELSE LET dep == graph[k][2].dependencies[j]
         IN  IF DictHas(graph, dep)
             THEN BuildDependents(
                      [graph EXCEPT ![DictPos(graph, dep)][2].dependents =
                                        Append(@, graph[k][1])],
                      k, j + 1)
             ELSE BuildDependents(graph, k, j + 1)

Build_dependency_graph(mods) == BuildDependents(BuildNodes(<<>>, mods), 1, 1)

(***************************************************************************)
(* _find_circular_dependencies.  The state of the search is the three      *)
(* closure variables circular_deps, visited and rec_stack.                 *)
(***************************************************************************)
RECURSIVE Dfs(_, _, _, _), DfsDeps(_, _, _, _, _)

\* dfs(node, path)
Dfs(graph, node, path, st) ==
    IF node \in st.rec_stack
    THEN LET cycle_start == IndexOf(path, node)
             cycle == SubSeq(path, cycle_start, Len(path)) \o <<node>>
         IN  [st EXCEPT !.circular_deps = Append(@, cycle)]
    ELSE IF node \in st.visited \/ ~DictHas(graph, node) THEN st
    ELSE LET st1 == [st EXCEPT !.visited = @ \cup {node}, !.rec_stack = @ \cup {node}]
             st2 == DfsDeps(graph, DictGet(graph, node).internal_deps, 1,
                            Append(path, node), st1)
         IN  [st2 EXCEPT !.rec_stack = @ \ {node}]

\* for dep in self.dependency_graph[node]['internal_deps']: dfs(dep, path.copy())
DfsDeps(graph, deps, i, path, st) ==
    IF i > Len(deps) THEN st
    ELSE DfsDeps(graph, deps, i + 1, path, Dfs(graph, deps[i], path, st))

\* for module in self.dependency_graph: if module not in visited: dfs(module, [])
RECURSIVE DfsRoots(_, _, _)
DfsRoots(graph, k, st) ==
    IF k > Len(graph) THEN st
    ELSE IF graph[k][1] \in st.visited THEN DfsRoots(graph, k + 1, st)
    ELSE DfsRoots(graph, k + 1, Dfs(graph, graph[k][1], <<>>, st))

\* a search that stops after the first root
Find_circular_dependencies_FirstRootOnly(graph) ==
    IF graph = <<>> THEN <<>>
    ELSE Dfs(graph, graph[1][1], <<>>,
             [circular_deps |-> <<>>, visited |-> {}, rec_stack |-> {}]).circular_deps

Find_circular_dependencies(graph) ==
    DfsRoots(graph, 1, [circular_deps |-> <<>>, visited |-> {}, rec_stack |-> {}]).circular_deps

(***************************************************************************)
(* _calculate_coupling_metrics and _generate_analysis_report.              *)
(***************************************************************************)
\* round(n / d, 3) in thousandths, for 0 <= n <= d, d > 0.  n / d lies
\* halfway between two thousandths only if 16 divides d, so for the
\* couplings of the modelled projects Python's round-half-even and
\* round-half-up agree.
Round3(n, d) == (2000 * n + d) \div (2 * d)

\* the instability with the afferent coupling alone as denominator
Instability_OverAfferent(ca, ce) ==
    IF ca > 0 THEN Round3(ce, ca) ELSE 1000

\* instability = ce / (ca + ce) if (ca + ce) > 0 else 0, rounded to three
\* places, in thousandths
Instability(ca, ce) ==
    IF ca + ce > 0 THEN Round3(ce, ca + ce) ELSE 0

\* module_coupling: afferent and efferent coupling and instability of every
\* graph node
Calculate_coupling_metrics(graph) ==
    [i \in 1..Len(graph) |->
        <<graph[i][1],
          [afferent_coupling |-> Len(graph[i][2].dependents),
           efferent_coupling |-> Len(graph[i][2].internal_deps),
           instability |-> Instability(Len(graph[i][2].dependents),
                                       Len(graph[i][2].internal_deps))]>>]

\* all_dependencies: the dependencies of all modules, concatenated
RECURSIVE All_dependencies(_)
All_dependencies(mods) ==
    IF mods = <<>> THEN <<>>
    ELSE Head(mods)[2].dependencies \o All_dependencies(Tail(mods))

\* dependency_counts: per target, in first-seen order, the number of
\* Dependency records and the scope and type of the first of them
RECURSIVE Dependency_counts(_, _)
Dependency_counts(deps, counts) ==
    IF deps = <<>> THEN counts
    ELSE LET dep == Head(deps)
             entry == IF DictHas(counts, dep.target) THEN DictGet(counts, dep.target)
                      ELSE [count |-> 0, scope |-> dep.scope, type |-> dep.dependency_type]
         IN  Dependency_counts(Tail(deps),
                               DictSet(counts, dep.target, [entry EXCEPT !.count = @ + 1]))

\* sorted(items, key=count, reverse=True): stable, larger counts first
RECURSIVE SortedByCount(_)
SortedByCount(items) ==
    IF items = <<>> THEN <<>>
    ELSE LET front == SortedByCount(SubSeq(items, 1, Len(items) - 1))
             x == items[Len(items)]
             k == Cardinality({i \in 1..Len(front) : front[i][2].count >= x[2].count})
         IN  SubSeq(front, 1, k) \o <<x>> \o SubSeq(front, k + 1, Len(front))

\* the default of the parameter limit
DefaultLimit == 10

\* the first limit targets in first-seen order, unsorted
Get_most_used_dependencies_Unsorted(mods, limit) ==
    LET counts == Dependency_counts(All_dependencies(mods), <<>>)
        top == SubSeq(counts, 1, IF limit < Len(counts) THEN limit ELSE Len(counts))
    IN  [i \in 1..Len(top) |->
            [name |-> top[i][1], count |-> top[i][2].count,
             scope |-> top[i][2].scope, type |-> top[i][2].type]]

\* _get_most_used_dependencies(limit), limit >= 0
Get_most_used_dependencies(mods, limit) ==
    LET sorted_deps == SortedByCount(Dependency_counts(All_dependencies(mods), <<>>))
        top == SubSeq(sorted_deps, 1,
                      IF limit < Len(sorted_deps) THEN limit ELSE Len(sorted_deps))
    IN  [i \in 1..Len(top) |->
            [name |-> top[i][1], count |-> top[i][2].count,
             scope |-> top[i][2].scope, type |-> top[i][2].type]]

\* the report with every dependency that is not external counted as internal
Generate_analysis_report_CountsNonExternal(mods, graph) ==
    IF Len(mods) = 0 THEN [error |-> "No modules analyzed"]
    ELSE [summary |-> [total_modules |-> Len(mods),
                       total_dependencies |-> Len(All_dependencies(mods)),
                       internal_dependencies |->
                           Len(SelectSeq(All_dependencies(mods), LAMBDA d : d.scope # EXTERNAL)),
                       external_dependencies |->
                           Len(SelectSeq(All_dependencies(mods), LAMBDA d : d.scope = EXTERNAL)),
                       builtin_dependencies |->
                           Len(SelectSeq(All_dependencies(mods), LAMBDA d : d.scope = BUILTIN))],
          modules |-> [i \in 1..Len(mods) |-> mods[i][1]],
          dependency_graph |-> graph,
          circular_dependencies |-> Find_circular_dependencies(graph),
          coupling_metrics |-> Calculate_coupling_metrics(graph),
          most_used_dependencies |-> Get_most_used_dependencies(mods, DefaultLimit)]

\* _generate_analysis_report
Generate_analysis_report(mods, graph) ==
    IF Len(mods) = 0 THEN [error |-> "No modules analyzed"]
    ELSE [summary |-> [total_modules |-> Len(mods),
                       total_dependencies |-> Len(All_dependencies(mods)),
                       internal_dependencies |->
                           Len(SelectSeq(All_dependencies(mods), LAMBDA d : d.scope = INTERNAL)),
                       external_dependencies |->
                           Len(SelectSeq(All_dependencies(mods), LAMBDA d : d.scope = EXTERNAL)),
                       builtin_dependencies |->
                           Len(SelectSeq(All_dependencies(mods), LAMBDA d : d.scope = BUILTIN))],
          modules |-> [i \in 1..Len(mods) |-> mods[i][1]],
          dependency_graph |-> graph,
          circular_dependencies |-> Find_circular_dependencies(graph),
          coupling_metrics |-> Calculate_coupling_metrics(graph),
          most_used_dependencies |-> Get_most_used_dependencies(mods, DefaultLimit)]

IsError(report) == "error" \in DOMAIN report

(***************************************************************************)
(* The DependencyMapper as a state machine: the public calls on one        *)
(* mapper, interleaved with edits of the files by the environment.         *)
(***************************************************************************)
NoFile == [p \in Paths |-> Absent]

AnalyzerIdle == tree = [state |-> "none"] /\ analysis = [state |-> "none"]

Init ==
    /\ fs \in [Paths -> UNION {Contents(p) : p \in Paths}]
    /\ \A p \in Paths : fs[p] \in Contents(p)
    /\ project_root \in Roots
    /\ modules = <<>>
    /\ dependency_graph = <<>>
    /\ last = [op |-> "init"]
    /\ ncalls = 0
    /\ nedits = 0
    /\ cycles = <<>>
    /\ AnalyzerIdle

\* the files of python_files whose analyze_file call returns
Analysed(f, python_files) ==
    SelectSeq(python_files, LAMBDA p : Parses(f[p]))

\* analyze_project(project_path); project_path = "None" keeps the root
AnalyzeProject(project_path, python_files) ==
    /\ ncalls < MaxCalls
    /\ LET root == IF project_path # "None" THEN project_path ELSE project_root
           mods == AnalyzeAll(fs, root, modules, python_files)
           graph == Build_dependency_graph(mods)
       IN  /\ project_root' = root
           /\ modules' = mods
           /\ dependency_graph' = graph
           /\ last' = [op |-> "analyze_project",
                       root |-> root,
                       analysed |-> Analysed(fs, python_files),
                       skipped |-> Len(python_files) - Len(Analysed(fs, python_files)),
                       raised |-> "none",
                       value |-> Generate_analysis_report(mods, graph)]
    /\ ncalls' = ncalls + 1
    /\ UNCHANGED <<fs, nedits, cycles, analyzerVars>>

\* analyze_file(file_path)
AnalyzeFile(file_path) ==
    /\ ncalls < MaxCalls
    /\ LET r == Analyze_file(fs, project_root, modules, file_path)
       IN  /\ modules' = r.modules
           /\ last' = IF r.raised = "none"
                      THEN [op |-> "analyze_file", path |-> file_path,
                            content |-> fs[file_path],
                            raised |-> "none", value |-> r.value]
                      ELSE [op |-> "analyze_file", path |-> file_path,
                            content |-> fs[file_path],
                            raised |-> r.raised]
    /\ ncalls' = ncalls + 1
    /\ UNCHANGED <<fs, project_root, dependency_graph, nedits, cycles, analyzerVars>>

\* the environment writes, breaks or deletes a file between two calls (an
\* edit before the first call is another initial file system)
EditFile(file_path, content) ==
    /\ nedits < MaxEdits
    /\ ncalls > 0
    /\ content \in Contents(file_path)
    /\ content # fs[file_path]
    /\ fs' = [fs EXCEPT ![file_path] = content]
    /\ nedits' = nedits + 1
    /\ UNCHANGED <<project_root, modules, dependency_graph, last, ncalls, cycles, analyzerVars>>

Next ==
    \/ \E project_path \in Roots \cup {"None"} :
         \E python_files \in Orders(List_files(fs, IF project_path # "None"
                                                    THEN project_path ELSE project_root)) :
           AnalyzeProject(project_path, python_files)
    \/ \E file_path \in Paths : AnalyzeFile(file_path)
    \/ \E file_path \in Paths : \E content \in Contents(file_path) :
         EditFile(file_path, content)

Spec == Init /\ [][Next]_vars

(***************************************************************************)
(* The graph algorithms on module sets drawn freely: any Dependency        *)
(* records, any order of the modules in self.modules.                      *)
(***************************************************************************)
NodeNames == {sA, sB, sC}

DepChoices == {<<sA, INTERNAL>>, <<sB, INTERNAL>>, <<sC, INTERNAL>>, <<sA, EXTERNAL>>}

\* the module of a drawn set: its name and the records drawn for it
DrawnModule(name, recs) ==
    LET mine == SelectSeq(recs, LAMBDA r : r[1] = name)
    IN  [path |-> [root |-> "p", rel |-> <<name>>],
         name |-> name,
         imports |-> {mine[i][2][1] : i \in 1..Len(mine)},
         exports |-> <<>>,
         functions |-> <<>>,
         classes |-> <<>>,
         dependencies |-> [i \in 1..Len(mine) |->
                             [source |-> name,
                              target |-> mine[i][2][1],
                              dependency_type |-> "import",
                              scope |-> mine[i][2][2],
                              line_number |-> i]]]

InitGraph ==
    /\ \E names \in UNION {Orders(S) : S \in SUBSET NodeNames} :
         \E L \in 0..MaxDeps :
           \E recs \in [1..L -> Range(names) \X DepChoices] :
             /\ names # <<>>
             /\ modules = [i \in 1..Len(names) |->
                             <<[root |-> "p", rel |-> <<names[i]>>],
                               DrawnModule(names[i], recs)>>]
    /\ fs = NoFile
    /\ project_root = "p"
    /\ dependency_graph = <<>>
    /\ last = [op |-> "input"]
    /\ ncalls = 0
    /\ nedits = 0
    /\ cycles = <<>>
    /\ AnalyzerIdle

BuildGraph ==
    /\ last.op = "input"
    /\ dependency_graph' = Build_dependency_graph(modules)
    /\ last' = [op |-> "build_dependency_graph"]
    /\ UNCHANGED <<fs, project_root, modules, ncalls, nedits, cycles, analyzerVars>>

FindCycles ==
    /\ last.op = "build_dependency_graph"
    /\ cycles' = Find_circular_dependencies(dependency_graph)
    /\ last' = [op |-> "find_circular_dependencies"]
    /\ UNCHANGED <<fs, project_root, modules, dependency_graph, ncalls, nedits, analyzerVars>>

CalculateCouplingMetrics ==
    /\ last.op = "build_dependency_graph"
    /\ last' = [op |-> "calculate_coupling_metrics",
                value |-> Calculate_coupling_metrics(dependency_graph)]
    /\ UNCHANGED <<fs, project_root, modules, dependency_graph, ncalls, nedits, cycles,
                   analyzerVars>>

GetMostUsedDependencies(limit) ==
    /\ last.op = "build_dependency_graph"
    /\ last' = [op |-> "get_most_used_dependencies",
                limit |-> limit,
                value |-> Get_most_used_dependencies(modules, limit)]
    /\ UNCHANGED <<fs, project_root, modules, dependency_graph, ncalls, nedits, cycles,
                   analyzerVars>>

NextGraph ==
    \/ BuildGraph
    \/ FindCycles
    \/ CalculateCouplingMetrics
    \/ \E limit \in {1, DefaultLimit} : GetMostUsedDependencies(limit)

SpecGraph == InitGraph /\ [][NextGraph]_vars

(***************************************************************************)
(* CodeAnalyzer.analyze_file.  A tree is the sequence of its nodes in      *)
(* ast.walk (breadth-first) order, the Module node first; every node names *)
(* its kind, the position of its parent and, for a BoolOp, the number of   *)
(* its operands.  A call that may raise returns the exception's name in    *)
(* the field raised, "none" when it returns normally.                      *)
(***************************************************************************)
BlockKinds == {"FunctionDef", "If", "While", "For", "AsyncFor", "Try",
               "ExceptHandler", "With", "AsyncWith"}
LeafKinds == {"Pass", "BoolOp"}
NodeKinds == BlockKinds \cup LeafKinds

ModuleNode == [kind |-> "Module", parent |-> 0, values |-> 0]

\* the trees that add one node to the tree t: its parent is a block not
\* before the parent of the last node (breadth-first order), an
\* ExceptHandler is a child of a Try and a Try has no other children, a
\* BoolOp has two or three operands
Extensions(t) ==
    LET n == Len(t)
        parents == {p \in 1..n : /\ t[p].kind \in BlockKinds \cup {"Module"}
                                 /\ n > 1 => t[n].parent <= p}
        kinds(p) == IF t[p].kind = "Try" THEN {"ExceptHandler"}
                    ELSE NodeKinds \ {"ExceptHandler"}
        operands(k) == IF k = "BoolOp" THEN {2, 3} ELSE {0}
    IN  UNION {UNION {{Append(t, [kind |-> k, parent |-> p, values |-> v]) :
                          v \in operands(k)} : k \in kinds(p)} : p \in parents}

\* the well-formed trees with n nodes below the Module node
RECURSIVE Trees(_)
Trees(n) ==
    IF n = 0 THEN {<<ModuleNode>>}
    ELSE UNION {Extensions(t) : t \in Trees(n - 1)}

\* is node i the node k or below it
RECURSIVE IsUnder(_, _, _)
IsUnder(t, i, k) ==
    IF i = k THEN TRUE
    ELSE IF i < k \/ t[i].parent = 0 THEN FALSE
    ELSE IsUnder(t, t[i].parent, k)

\* ast.walk(node): the nodes of the subtree at position k, breadth-first
Walk(t, k) ==
    LET idx == SelectSeq([i \in 1..Len(t) |-> i], LAMBDA i : IsUnder(t, i, k))
    IN  [j \in 1..Len(idx) |-> t[idx[j]]]

\* isinstance(child, ast.With, ast.AsyncWith): isinstance takes exactly two
\* arguments, the call raises TypeError whatever the node
Isinstance_With_AsyncWith(child) == [raised |-> "TypeError"]

\* the loop shared by _calculate_function_complexity and
\* _calculate_cyclomatic_complexity, from position i with the count so far
RECURSIVE ComplexityLoop(_, _, _)
ComplexityLoop(nodes, i, complexity) ==
    IF i > Len(nodes) THEN [raised |-> "none", value |-> complexity]
    ELSE LET child == nodes[i]
         IN  IF child.kind \in {"If", "While", "For", "AsyncFor"}
             THEN ComplexityLoop(nodes, i + 1, complexity + 1)
             ELSE IF child.kind = "ExceptHandler"
             THEN ComplexityLoop(nodes, i + 1, complexity + 1)
             ELSE LET w == Isinstance_With_AsyncWith(child)
                  IN  IF w.raised # "none" THEN [raised |-> w.raised]
                      ELSE IF w.value
                      THEN ComplexityLoop(nodes, i + 1, complexity + 1)
                      ELSE IF child.kind = "BoolOp"
                      THEN ComplexityLoop(nodes, i + 1, complexity + child.values - 1)
                      ELSE ComplexityLoop(nodes, i + 1, complexity)

\* CodeAnalyzer._calculate_function_complexity(node), node at position k
Calculate_function_complexity(t, k) == ComplexityLoop(Walk(t, k), 1, 1)

\* CodeAnalyzer._calculate_cyclomatic_complexity(tree)
Calculate_cyclomatic_complexity(t) == ComplexityLoop(Walk(t, 1), 1, 1)

\* _extract_functions: the complexity of every function, in ast.walk order;
\* the first exception leaves the loop
RECURSIVE Extract_functions(_, _, _)
Extract_functions(t, i, functions) ==
    IF i > Len(t) THEN [raised |-> "none", value |-> functions]
    ELSE IF t[i].kind # "FunctionDef" THEN Extract_functions(t, i + 1, functions)
    ELSE LET c == Calculate_function_complexity(t, i)
         IN  IF c.raised # "none" THEN [raised |-> c.raised]
             ELSE Extract_functions(t, i + 1,
                      Append(functions, [line_start |-> i, complexity |-> c.value]))

\* CodeAnalyzer.analyze_file on a file that exists and can be read
Code_analyze_file(file) ==
    IF file.state = "broken"
    THEN [raised |-> "none", valid |-> FALSE, error |-> "Syntax error"]
    ELSE LET functions == Extract_functions(file.nodes, 1, <<>>)
             cc == Calculate_cyclomatic_complexity(file.nodes)
         IN  IF functions.raised # "none" THEN [raised |-> functions.raised]
             ELSE IF cc.raised # "none" THEN [raised |-> cc.raised]
             ELSE [raised |-> "none",
                   valid |-> TRUE,
                   functions |-> functions.value,
                   complexity_metrics |-> [cyclomatic_complexity |-> cc.value]]

InitAnalyzer ==
    /\ tree \in {Broken} \cup {Source(t) : t \in UNION {Trees(n) : n \in 0..MaxTree}}
    /\ analysis = [state |-> "none"]
    /\ fs = NoFile
    /\ project_root = "p"
    /\ modules = <<>>
    /\ dependency_graph = <<>>
    /\ last = [op |-> "init"]
    /\ ncalls = 0
    /\ nedits = 0
    /\ cycles = <<>>

CodeAnalyzeFile ==
    /\ analysis = [state |-> "none"]
    /\ analysis' = [state |-> "returned", result |-> Code_analyze_file(tree)]
    /\ UNCHANGED <<tree, mapperVars>>

NextAnalyzer == CodeAnalyzeFile

SpecAnalyzer == InitAnalyzer /\ [][NextAnalyzer]_vars

\* C10: CodeAnalyzer.analyze_file on a syntactically valid file returns an
\* analysis with valid = true and raises nothing.
C10_ValidFileNeverRaises ==
    (analysis.state = "returned" /\ tree.state = "valid") =>
        /\ analysis.result.raised = "none"
        /\ analysis.result.valid

(***************************************************************************)
(* Directed cycles, defined without the search: the transitive closure of  *)
(* the internal_deps edges between graph nodes.                            *)
(***************************************************************************)
Edges(graph) ==
    {e \in DictKeys(graph) \X DictKeys(graph) :
        e[2] \in Range(DictGet(graph, e[1]).internal_deps)}

ComposeOnce(R) == R \cup {e \in {<<e1[1], e2[2]>> : e1 \in R, e2 \in R} :
                            \E y \in {x[2] : x \in R} : <<e[1], y>> \in R /\ <<y, e[2]>> \in R}

RECURSIVE Reach(_, _)
Reach(R, k) == IF k = 0 THEN R ELSE Reach(ComposeOnce(R), k - 1)

HasCycle(graph) ==
    \E n \in DictKeys(graph) : <<n, n>> \in Reach(Edges(graph), Cardinality(DictKeys(graph)))

TriangleABC == {<<sA, sB>>, <<sB, sC>>, <<sC, sA>>}
TriangleACB == {<<sA, sC>>, <<sC, sB>>, <<sB, sA>>}

\* C1: _find_circular_dependencies returns an empty list exactly when the
\* internal_deps edges between graph nodes have no directed cycle (a
\* self-edge being a cycle); for A->B->C->A every reported cycle has the
\* modules {A,B,C} and at least one is reported.
C1_CycleIffReported ==
    last.op = "find_circular_dependencies" =>
        /\ (cycles = <<>>) <=> ~HasCycle(dependency_graph)
        /\ Edges(dependency_graph) \in {TriangleABC, TriangleACB} =>
             /\ cycles # <<>>
             /\ \A i \in 1..Len(cycles) : Range(cycles[i]) = {sA, sB, sC}

C1_Witness ==
    /\ last.op = "find_circular_dependencies"
    /\ Edges(dependency_graph) = TriangleABC
    /\ dependency_graph[1][1] = sB
    /\ cycles = <<<<sB, sC, sA, sB>>>>

\* C9: _find_circular_dependencies never reports the same sequence of
\* modules twice.
C9_NoCycleTwice ==
    last.op = "find_circular_dependencies" =>
        \A i, j \in 1..Len(cycles) : i # j => cycles[i] # cycles[j]

(***************************************************************************)
(* Properties of the mapper's public calls.                                *)
(***************************************************************************)
Scenario3 ==
    /\ fs[p_a] = Source(<<Imp(sB, 1)>>)
    /\ fs[p_b] = Source(<<Imp(sC, 1)>>)
    /\ fs[p_c] = Source(<<Imp(sA, 1)>>)

\* the call just made was analyze_project on a newly created mapper, and
\* the files are still those it read
FirstRun == last.op = "analyze_project" /\ ncalls = 1 /\ nedits = 0

\* C2: the scope stored on every Dependency produced by analyze_project is
\* the classification of its target against the complete set of project
\* module names, whatever had been analysed when its file was read.
C2_ScopeIsPure ==
    last.op = "analyze_project" =>
        \A i \in 1..Len(modules) :
            modules[i][1] \in Range(last.analysed) =>
                \A j \in 1..Len(modules[i][2].dependencies) :
                    modules[i][2].dependencies[j].scope =
                        Determine_scope(modules[i][2].dependencies[j].target, modules)

\* C3: scenario 3 (a imports b, b imports c, c imports a) analysed by a new
\* mapper reports exactly one circular dependency, over a, b and c.
C3_Scenario3OneCycle ==
    (FirstRun /\ last.root = "p" /\ Scenario3) =>
        /\ ~IsError(last.value)
        /\ Len(last.value.circular_dependencies) = 1
        /\ Range(last.value.circular_dependencies[1]) = {sA, sB, sC}

\* C4: dependents is the transpose of the internal_deps edges between graph
\* modules.
C4_DependentsIsTranspose ==
    \A m, n \in DictKeys(dependency_graph) :
        (n \in Range(DictGet(dependency_graph, m).dependents))
            <=> (m \in Range(DictGet(dependency_graph, n).internal_deps))

\* C5: afferent coupling is the number of distinct modules depending on the
\* module, efferent coupling the number of distinct internal targets.
C5_CouplingCountsDistinct ==
    (last.op = "analyze_project" /\ ~IsError(last.value)) =>
        LET graph == last.value.dependency_graph
            coupling == last.value.coupling_metrics
        IN  \A i \in 1..Len(coupling) :
                /\ coupling[i][2].afferent_coupling =
                       Cardinality(Range(DictGet(graph, coupling[i][1]).dependents))
                /\ coupling[i][2].efferent_coupling =
                       Cardinality(Range(DictGet(graph, coupling[i][1]).internal_deps))

\* C6: the modules and the graph of a report are exactly the files analysed
\* successfully by the call that returned it.
C6_ReportDescribesThisRun ==
    last.op = "analyze_project" =>
        IF IsError(last.value) THEN last.analysed = <<>>
        ELSE /\ Range(last.value.modules) = Range(last.analysed)
             /\ DictKeys(last.value.dependency_graph) =
                    {Get_module_name(p, last.root) : p \in Range(last.analysed)}

C8_AnalyzeFileIdempotent ==
    [][(/\ last.op = "analyze_file"
        /\ last'.op = "analyze_file"
        /\ ncalls' = ncalls + 1
        /\ last.raised = "none"
        /\ last'.raised = "none"
        /\ last'.path = last.path
        /\ last'.content = last.content)
       => last'.value = last.value]_vars

\* C11: a per-file extraction entry point given a syntactically invalid file
\* returns an error result (valid = false) and raises nothing.
C11_BrokenFileIsResult ==
    (last.op = "analyze_file" /\ last.content = Broken) => last.raised = "none"

(***************************************************************************)
(* _determine_scope on its own: any target against any set of known        *)
(* project modules.                                                        *)
(***************************************************************************)
sOSP == <<"o", "s", ".", "p">>
sOSX == <<"o", "s", "x">>
sAX == <<"a", ".", "x">>
sDotA == <<".", "a">>
sXA == <<"x", ".", "a">>

ScopeTargets == {sA, sAB, sAX, sB, sC, sOS, sOSP, sOSX, sDotA, sXA}
ScopeModuleNames == {sA, sB, sOS}

InitScope ==
    /\ \E names \in UNION {Orders(S) : S \in SUBSET ScopeModuleNames} :
         modules = [i \in 1..Len(names) |->
                       <<[root |-> "p", rel |-> <<names[i]>>], DrawnModule(names[i], <<>>)>>]
    /\ \E target \in ScopeTargets : last = [op |-> "input", target |-> target]
    /\ fs = NoFile
    /\ project_root = "p"
    /\ dependency_graph = <<>>
    /\ ncalls = 0
    /\ nedits = 0
    /\ cycles = <<>>
    /\ AnalyzerIdle

DetermineScope ==
    /\ last.op = "input"
    /\ last' = [op |-> "determine_scope",
                target |-> last.target,
                value |-> Determine_scope(last.target, modules)]
    /\ UNCHANGED <<fs, project_root, modules, dependency_graph, ncalls, nedits, cycles,
                   analyzerVars>>

NextScope == DetermineScope

SpecScope == InitScope /\ [][NextScope]_vars

\* the target is a builtin module name or such a name followed by '.'
RootIsBuiltin(target) ==
    \E b \in builtin_modules : target = b \/ StartsWith(target, b \o sDot)

\* the target is a known module name or such a name followed by '.'
NamesKnownModule(target, mods) ==
    \E i \in 1..Len(mods) :
        target = mods[i][2].name \/ StartsWith(target, mods[i][2].name \o sDot)

\* C12: a target whose text before the first '.' is a builtin module name is
\* classified BUILTIN whatever the known project modules are, also when a
\* project module has that name.
C12_BuiltinWins ==
    (last.op = "determine_scope" /\ RootIsBuiltin(last.target)) => last.value = BUILTIN

C12_Witness ==
    /\ last.op = "determine_scope"
    /\ last.target = sOSP
    /\ \E i \in 1..Len(modules) : modules[i][2].name = sOS
    /\ last.value = BUILTIN

\* C13: a target whose root is not builtin is INTERNAL exactly when it equals
\* a known module name, is such a name followed by '.', or begins with '.',
\* and EXTERNAL otherwise.
C13_InternalIffNamesModule ==
    (last.op = "determine_scope" /\ ~RootIsBuiltin(last.target)) =>
        /\ last.value \in {INTERNAL, EXTERNAL}
        /\ (last.value = INTERNAL)
               <=> (NamesKnownModule(last.target, modules) \/ StartsWith(last.target, sDot))

\* C14: every stored dependency has exactly one of the three scopes, and in
\* every analysis report the internal, external and builtin counts add up to
\* total_dependencies.
C14_ScopeCountsAddUp ==
    /\ \A i \in 1..Len(modules) : \A k \in 1..Len(modules[i][2].dependencies) :
           modules[i][2].dependencies[k].scope \in {INTERNAL, EXTERNAL, BUILTIN}
    /\ (last.op = "analyze_project" /\ ~IsError(last.value)) =>
           last.value.summary.internal_dependencies
             + last.value.summary.external_dependencies
             + last.value.summary.builtin_dependencies
               = last.value.summary.total_dependencies

C14_Witness ==
    /\ last.op = "analyze_project"
    /\ ~IsError(last.value)
    /\ last.value.summary.internal_dependencies > 0
    /\ last.value.summary.external_dependencies > 0
    /\ last.value.summary.builtin_dependencies > 0

\* C15: the instability reported for a module lies between 0 and 1 (here in
\* thousandths), and is 0 for a module with no afferent and no efferent
\* coupling.
C15_InstabilityInRange ==
    last.op = "calculate_coupling_metrics" =>
        \A i \in 1..Len(last.value) :
            LET m == last.value[i][2]
            IN  /\ 0 <= m.instability /\ m.instability <= 1000
                /\ (m.afferent_coupling = 0 /\ m.efferent_coupling = 0) => m.instability = 0

C15_Witness ==
    /\ last.op = "calculate_coupling_metrics"
    /\ \E i, j \in 1..Len(last.value) :
          /\ last.value[i][2].afferent_coupling = 0
          /\ last.value[i][2].efferent_coupling = 0
          /\ last.value[i][2].instability = 0
          /\ last.value[j][2].efferent_coupling > last.value[j][2].afferent_coupling
          /\ last.value[j][2].afferent_coupling > 0
          /\ last.value[j][2].instability = 667

\* the number of Dependency records of all modules with this target
RecordsWithTarget(t) ==
    Cardinality(UNION {{<<m, k>> : k \in {n \in 1..Len(modules[m][2].dependencies) :
                                              modules[m][2].dependencies[n].target = t}} :
                       m \in 1..Len(modules)})

AllTargets ==
    UNION {{modules[m][2].dependencies[k].target :
               k \in 1..Len(modules[m][2].dependencies)} : m \in 1..Len(modules)}

\* C16: _get_most_used_dependencies(N) returns at most N entries, in
\* non-increasing order of count; each count is the number of Dependency
\* records with that target, whatever their scope; no omitted target has a
\* greater count than a returned one.
C16_MostUsedIsTopN ==
    last.op = "get_most_used_dependencies" =>
        LET top == last.value
        IN  /\ Len(top) <= last.limit
            /\ \A i, j \in 1..Len(top) : i < j => top[i].count >= top[j].count
            /\ \A i \in 1..Len(top) : top[i].count = RecordsWithTarget(top[i].name)
            /\ \A t \in AllTargets \ {top[i].name : i \in 1..Len(top)} :
                  \A i \in 1..Len(top) : RecordsWithTarget(t) <= top[i].count

C16_Witness ==
    /\ last.op = "get_most_used_dependencies"
    /\ last.limit = 1
    /\ Len(last.value) = 1
    /\ last.value[1].count = 2
    /\ Cardinality(AllTargets) = 2
    /\ \E m1, m2 \in 1..Len(modules) :
         \E k1 \in 1..Len(modules[m1][2].dependencies) :
           \E k2 \in 1..Len(modules[m2][2].dependencies) :
             /\ modules[m1][2].dependencies[k1].target = last.value[1].name
             /\ modules[m2][2].dependencies[k2].target = last.value[1].name
             /\ modules[m1][2].dependencies[k1].scope
                  # modules[m2][2].dependencies[k2].scope

(***************************************************************************)
(* The complexity measures on their own:                                   *)
(* FunctionExtractor._calculate_function_complexity on a function of a     *)
(* tree, before and after one more if statement is written into its body,  *)
(* and CodeAnalyzer._calculate_cognitive_complexity on a whole tree.        *)
(***************************************************************************)
MaxNodes == 2
\* the largest number of nodes below the Module node of a drawn tree

\* the loop of FunctionExtractor._calculate_function_complexity with an if
\* counted twice
RECURSIVE ExtractorComplexityLoop_IfTwice(_, _, _)
ExtractorComplexityLoop_IfTwice(nodes, i, complexity) ==
    IF i > Len(nodes) THEN complexity
    ELSE LET child == nodes[i]
         IN  IF child.kind = "If"
             THEN ExtractorComplexityLoop_IfTwice(nodes, i + 1, complexity + 2)
             ELSE IF child.kind \in {"While", "For", "AsyncFor", "ExceptHandler",
                                     "With", "AsyncWith"}
             THEN ExtractorComplexityLoop_IfTwice(nodes, i + 1, complexity + 1)
             ELSE IF child.kind = "BoolOp"
             THEN ExtractorComplexityLoop_IfTwice(nodes, i + 1, complexity + child.values - 1)
             ELSE ExtractorComplexityLoop_IfTwice(nodes, i + 1, complexity)

\* the loop of FunctionExtractor._calculate_function_complexity, from
\* position i with the count so far
RECURSIVE ExtractorComplexityLoop(_, _, _)
ExtractorComplexityLoop(nodes, i, complexity) ==
    IF i > Len(nodes) THEN complexity
    ELSE LET child == nodes[i]
         IN  IF child.kind \in {"If", "While", "For", "AsyncFor"}
             THEN ExtractorComplexityLoop(nodes, i + 1, complexity + 1)
             ELSE IF child.kind = "ExceptHandler"
             THEN ExtractorComplexityLoop(nodes, i + 1, complexity + 1)
             ELSE IF child.kind \in {"With", "AsyncWith"}
             THEN ExtractorComplexityLoop(nodes, i + 1, complexity + 1)
             ELSE IF child.kind = "BoolOp"
             THEN ExtractorComplexityLoop(nodes, i + 1, complexity + child.values - 1)
             ELSE ExtractorComplexityLoop(nodes, i + 1, complexity)

\* the complexity of the function at position k with an if counted twice
Extractor_calculate_function_complexity_IfTwice(t, k) ==
    ExtractorComplexityLoop_IfTwice(Walk(t, k), 1, 1)

\* FunctionExtractor._calculate_function_complexity(node), node at position k
Extractor_calculate_function_complexity(t, k) == ExtractorComplexityLoop(Walk(t, k), 1, 1)

\* the tree t with one more node of this kind written into the body of the
\* block at position p: the node comes after the children of the blocks up
\* to p, and the nodes after it move one position
InsertChild(t, p, kind) ==
    LET pos == 1 + Cardinality({i \in 2..Len(t) : t[i].parent <= p})
        moved(i) == IF t[i].parent > pos THEN [t[i] EXCEPT !.parent = @ + 1] ELSE t[i]
    IN  [i \in 1..(Len(t) + 1) |->
            IF i <= pos THEN t[i]
            ELSE IF i = pos + 1 THEN [kind |-> kind, parent |-> p, values |-> 0]
            ELSE moved(i - 1)]

\* the positions of the children of the node at position k, in order
Iter_child_nodes(t, k) == SelectSeq([i \in 1..Len(t) |-> i], LAMBDA i : t[i].parent = k)

\* the number of if, while, for and except nodes of the tree
Calculate_cognitive_complexity_FlatCount(t) ==
    Cardinality({i \in 1..Len(t) : t[i].kind \in {"If", "While", "For", "ExceptHandler"}})

\* visit_node(node, level), node at position k: what the visit adds to
\* complexity
RECURSIVE Visit_node(_, _, _)
RECURSIVE Visit_children(_, _, _)
Visit_node(t, k, level) ==
    LET added == IF t[k].kind \in {"If", "While", "For"} THEN 1 + level
                 ELSE IF t[k].kind = "ExceptHandler" THEN 1 + level
                 ELSE 0
        inner == IF t[k].kind \in {"If", "While", "For", "With", "ExceptHandler"}
                 THEN level + 1 ELSE level
    IN  added + Visit_children(t, Iter_child_nodes(t, k), inner)

Visit_children(t, children, level) ==
    IF children = <<>> THEN 0
    ELSE Visit_node(t, Head(children), level) + Visit_children(t, Tail(children), level)

\* CodeAnalyzer._calculate_cognitive_complexity(tree)
Calculate_cognitive_complexity(t) == Visit_node(t, 1, 0)

InitComplexity ==
    /\ tree \in {Source(t) : t \in UNION {Trees(n) : n \in 1..MaxNodes}}
    /\ analysis = [state |-> "none"]
    /\ fs = NoFile
    /\ project_root = "p"
    /\ modules = <<>>
    /\ dependency_graph = <<>>
    /\ last = [op |-> "init"]
    /\ ncalls = 0
    /\ nedits = 0
    /\ cycles = <<>>

\* the extractor measures the function at position k
FunctionComplexity(k) ==
    /\ analysis.state = "none"
    /\ tree.nodes[k].kind = "FunctionDef"
    /\ analysis' = [state |-> "function_complexity", node |-> k,
                    value |-> Extractor_calculate_function_complexity(tree.nodes, k)]
    /\ UNCHANGED <<tree, mapperVars>>

\* an if statement with a plain condition is written into the block at
\* position p of the measured function, and the function is measured again
AddIf(p) ==
    /\ analysis.state = "function_complexity"
    /\ IsUnder(tree.nodes, p, analysis.node)
    /\ tree.nodes[p].kind \in BlockKinds \ {"Try"}
    /\ tree' = Source(InsertChild(tree.nodes, p, "If"))
    /\ analysis' = [state |-> "if_added", node |-> analysis.node, block |-> p,
                    before |-> analysis.value,
                    value |-> Extractor_calculate_function_complexity(tree'.nodes,
                                                                      analysis.node)]
    /\ UNCHANGED mapperVars

CognitiveComplexity ==
    /\ analysis.state = "none"
    /\ analysis' = [state |-> "cognitive_complexity",
                    value |-> Calculate_cognitive_complexity(tree.nodes)]
    /\ UNCHANGED <<tree, mapperVars>>

NextComplexity ==
    \/ \E k \in 1..Len(tree.nodes) : FunctionComplexity(k)
    \/ \E p \in 1..Len(tree.nodes) : AddIf(p)
    \/ CognitiveComplexity

SpecComplexity == InitComplexity /\ [][NextComplexity]_vars

\* C17: the complexity FunctionExtractor computes for a function is at least
\* 1, and one more if statement with a plain condition anywhere in the body
\* of the function raises it by exactly 1.
C17_OneMoreIfAddsOne ==
    /\ analysis.state \in {"function_complexity", "if_added"} => analysis.value >= 1
    /\ analysis.state = "if_added" => analysis.value = analysis.before + 1

C17_Witness ==
    /\ analysis.state = "if_added"
    /\ analysis.block # analysis.node
    /\ tree.nodes[analysis.block].kind = "With"
    /\ analysis.before = 2
    /\ analysis.value = 3

\* the proper ancestors of the node at position i
RECURSIVE Ancestors(_, _)
Ancestors(t, i) ==
    IF t[i].parent = 0 THEN {} ELSE {t[i].parent} \cup Ancestors(t, t[i].parent)

\* C18: the cognitive complexity of a tree is the sum, over its if, while,
\* for and except nodes, of 1 plus the number of if, while, for, with and
\* except nodes enclosing the node.
RECURSIVE SumOver(_, _)
SumOver(S, t) ==
    IF S = {} THEN 0
    ELSE LET i == CHOOSE x \in S : TRUE
         IN  1 + Cardinality({a \in Ancestors(t, i) :
                                 t[a].kind \in {"If", "While", "For", "With", "ExceptHandler"}})
               + SumOver(S \ {i}, t)

C18_CognitiveIsNestingSum ==
    analysis.state = "cognitive_complexity" =>
        analysis.value =
            SumOver({i \in 1..Len(tree.nodes) :
                        tree.nodes[i].kind \in {"If", "While", "For", "ExceptHandler"}},
                    tree.nodes)

\* an if statement whose body is an if statement
C18_Witness ==
    /\ analysis.state = "cognitive_complexity"
    /\ tree.nodes = <<ModuleNode,
                      [kind |-> "If", parent |-> 1, values |-> 0],
                      [kind |-> "If", parent |-> 2, values |-> 0]>>
    /\ analysis.value = 3

(***************************************************************************)
(* CodeAnalyzer._calculate_docstring_coverage and _detect_code_smells on   *)
(* the definitions of a module.  A module is the sequence of its top-level *)
(* definitions; a class names how many def and async def methods its body  *)
(* holds, a function how many positional and keyword-only parameters it    *)
(* has and whether it has a docstring.                                     *)
(***************************************************************************)
MaxDefs == 2
\* the largest number of top-level definitions of a drawn module

\* method_count > 20
LargeClassMethods == 20

\* len(node.args.args) > 5
LongParameterList == 5

FunctionNode(kind, doc, args, kwonly) ==
    [kind |-> kind, doc |-> doc, args |-> args, kwonlyargs |-> kwonly,
     methods |-> 0, async_methods |-> 0]

ClassNode(doc, methods, async_methods) ==
    [kind |-> "ClassDef", doc |-> doc, args |-> 0, kwonlyargs |-> 0,
     methods |-> methods, async_methods |-> async_methods]

DefNodes ==
    {FunctionNode(k, d, LongParameterList, 0) :
        k \in {"FunctionDef", "AsyncFunctionDef"}, d \in BOOLEAN}
    \cup {FunctionNode(k, FALSE, LongParameterList + 1, 0) :
             k \in {"FunctionDef", "AsyncFunctionDef"}}
    \cup {FunctionNode("FunctionDef", FALSE, LongParameterList, 1)}
    \cup {ClassNode(d, 0, 0) : d \in BOOLEAN}
    \cup {ClassNode(FALSE, m, a) :
             m \in {LargeClassMethods, LargeClassMethods + 1}, a \in {0, 1}}

\* the body of the class at position i: its def methods, then its async def
\* methods, each undocumented and with the parameter self
ClassBody(defs, i) ==
    [j \in 1..(defs[i].methods + defs[i].async_methods) |->
        [node |-> FunctionNode(IF j <= defs[i].methods THEN "FunctionDef"
                               ELSE "AsyncFunctionDef", FALSE, 1, 0),
         name |-> <<i, j>>]]

\* ast.walk(tree) restricted to definitions: the top-level definitions, then
\* the methods of the classes; a definition is named by its position
RECURSIVE ClassBodies(_, _)
ClassBodies(defs, i) ==
    IF i > Len(defs) THEN <<>>
    ELSE (IF defs[i].kind = "ClassDef" THEN ClassBody(defs, i) ELSE <<>>)
           \o ClassBodies(defs, i + 1)

WalkDefs(defs) ==
    [i \in 1..Len(defs) |-> [node |-> defs[i], name |-> <<i>>]] \o ClassBodies(defs, 1)

\* round(n / d, 2) in hundredths, for n >= 0, d > 0 (n / d is halfway
\* between two hundredths only if 8 divides d)
Round2(n, d) == (200 * n + d) \div (2 * d)

\* the coverage with 0 for an empty category
Calculate_docstring_coverage_ZeroIsZero(defs) ==
    LET walk == WalkDefs(defs)
        count(kind, documented) ==
            Cardinality({i \in 1..Len(walk) :
                            /\ walk[i].node.kind = kind
                            /\ documented => walk[i].node.doc})
        total_functions == count("FunctionDef", FALSE)
        documented_functions == count("FunctionDef", TRUE)
        total_classes == count("ClassDef", FALSE)
        documented_classes == count("ClassDef", TRUE)
        f == IF total_functions > 0
             THEN <<documented_functions * 100, total_functions>> ELSE <<0, 1>>
        c == IF total_classes > 0
             THEN <<documented_classes * 100, total_classes>> ELSE <<0, 1>>
    IN  [function_coverage |-> Round2(f[1], f[2]),
         class_coverage |-> Round2(c[1], c[2]),
         overall_coverage |-> Round2(f[1] * c[2] + c[1] * f[2], 2 * f[2] * c[2]),
         documented_functions |-> documented_functions,
         total_functions |-> total_functions,
         documented_classes |-> documented_classes,
         total_classes |-> total_classes]

\* _calculate_docstring_coverage; the coverages in hundredths of a percent,
\* function_coverage and class_coverage kept as fractions until rounded
Calculate_docstring_coverage(defs) ==
    LET walk == WalkDefs(defs)
        count(kind, documented) ==
            Cardinality({i \in 1..Len(walk) :
                            /\ walk[i].node.kind = kind
                            /\ documented => walk[i].node.doc})
        total_functions == count("FunctionDef", FALSE)
        documented_functions == count("FunctionDef", TRUE)
        total_classes == count("ClassDef", FALSE)
        documented_classes == count("ClassDef", TRUE)
        f == IF total_functions > 0
             THEN <<documented_functions * 100, total_functions>> ELSE <<100, 1>>
        c == IF total_classes > 0
             THEN <<documented_classes * 100, total_classes>> ELSE <<100, 1>>
    IN  [function_coverage |-> Round2(f[1], f[2]),
         class_coverage |-> Round2(c[1], c[2]),
         overall_coverage |-> Round2(f[1] * c[2] + c[1] * f[2], 2 * f[2] * c[2]),
         documented_functions |-> documented_functions,
         total_functions |-> total_functions,
         documented_classes |-> documented_classes,
         total_classes |-> total_classes]

\* _detect_code_smells: the entries in ast.walk order
RECURSIVE Detect_code_smells(_, _)
Detect_code_smells(walk, i) ==
    IF i > Len(walk) THEN <<>>
    ELSE LET node == walk[i].node
             long == IF node.kind = "FunctionDef" /\ node.args > LongParameterList
                     THEN <<[type |-> "long_parameter_list", name |-> walk[i].name,
                             count |-> node.args]>>
                     ELSE <<>>
             large == IF node.kind = "ClassDef" /\ node.methods > LargeClassMethods
                      THEN <<[type |-> "large_class", name |-> walk[i].name,
                              count |-> node.methods]>>
                      ELSE <<>>
         IN  long \o large \o Detect_code_smells(walk, i + 1)

InitMetrics ==
    /\ tree \in {Source(defs) : defs \in UNION {[1..n -> DefNodes] : n \in 0..MaxDefs}}
    /\ analysis = [state |-> "none"]
    /\ fs = NoFile
    /\ project_root = "p"
    /\ modules = <<>>
    /\ dependency_graph = <<>>
    /\ last = [op |-> "init"]
    /\ ncalls = 0
    /\ nedits = 0
    /\ cycles = <<>>

DocstringCoverage ==
    /\ analysis.state = "none"
    /\ analysis' = [state |-> "docstring_coverage",
                    value |-> Calculate_docstring_coverage(tree.nodes)]
    /\ UNCHANGED <<tree, mapperVars>>

DetectCodeSmells ==
    /\ analysis.state = "none"
    /\ analysis' = [state |-> "code_smells",
                    value |-> Detect_code_smells(WalkDefs(tree.nodes), 1)]
    /\ UNCHANGED <<tree, mapperVars>>

NextMetrics == DocstringCoverage \/ DetectCodeSmells

SpecMetrics == InitMetrics /\ [][NextMetrics]_vars

\* C19: function_coverage, class_coverage and overall_coverage lie between 0
\* and 100 (here in hundredths of a percent), and a module without functions
\* and without classes has 100 for function and for class coverage.
C19_CoverageInRange ==
    analysis.state = "docstring_coverage" =>
        LET v == analysis.value
        IN  /\ 0 <= v.function_coverage /\ v.function_coverage <= 10000
            /\ 0 <= v.class_coverage /\ v.class_coverage <= 10000
            /\ 0 <= v.overall_coverage /\ v.overall_coverage <= 10000
            /\ (v.total_functions = 0 /\ v.total_classes = 0) =>
                  (v.function_coverage = 10000 /\ v.class_coverage = 10000)

C19_Witness ==
    /\ analysis.state = "docstring_coverage"
    /\ Len(tree.nodes) > 0
    /\ analysis.value.total_functions = 0
    /\ analysis.value.total_classes = 0
    /\ analysis.value.function_coverage = 10000
    /\ analysis.value.class_coverage = 10000
    /\ analysis.value.overall_coverage = 10000

\* the entries of this type reported for the definition with this name
SmellsOf(type, name) ==
    {k \in 1..Len(analysis.value) :
        analysis.value[k].type = type /\ analysis.value[k].name = name}

\* C20: exactly one large_class entry, with the class and its method count,
\* for every class whose body holds more than 20 method definitions of any
\* form, none for a class with 20 or fewer; exactly one long_parameter_list
\* entry for every function with more than 5 parameters.
C20_SmellsPerDefinition ==
    analysis.state = "code_smells" =>
        LET walk == WalkDefs(tree.nodes)
        IN  \A i \in 1..Len(walk) :
              LET node == walk[i].node
                  methods == node.methods + node.async_methods
                  parameters == node.args + node.kwonlyargs
              IN  /\ (node.kind = "ClassDef" /\ methods > LargeClassMethods) =>
                        /\ Cardinality(SmellsOf("large_class", walk[i].name)) = 1
                        /\ \A k \in SmellsOf("large_class", walk[i].name) :
                              analysis.value[k].count = methods
                  /\ (node.kind = "ClassDef" /\ methods <= LargeClassMethods) =>
                        SmellsOf("large_class", walk[i].name) = {}
                  /\ (node.kind \in {"FunctionDef", "AsyncFunctionDef"}
                        /\ parameters > LongParameterList) =>
                        Cardinality(SmellsOf("long_parameter_list", walk[i].name)) = 1

(***************************************************************************)
(* CodeAnalyzer on the text of a file: the line counters of analyze_file   *)
(* and _detect_duplicate_code.  A text is a sequence of characters, "\n"   *)
(* the line separator.                                                     *)
(***************************************************************************)
MaxChars == 5
\* the largest length of a text drawn character by character

MaxLines == 3
\* the largest number of lines of a text drawn line by line

\* len(stripped) > 10
MinDuplicateLength == 10

\* len(line) > 50
MaxShownLength == 50

Whitespace == {" ", "\t", "\r", "\n"}

\* content.split('\n')
RECURSIVE SplitLines(_)
SplitLines(content) ==
    LET breaks == {i \in 1..Len(content) : content[i] = "\n"}
    IN  IF breaks = {} THEN <<content>>
        ELSE <<SubSeq(content, 1, Min(breaks) - 1)>>
               \o SplitLines(SubSeq(content, Min(breaks) + 1, Len(content)))

\* line.strip()
Strip(line) ==
    LET solid == {i \in 1..Len(line) : line[i] \notin Whitespace}
    IN  IF solid = {} THEN <<>>
        ELSE SubSeq(line, Min(solid), CHOOSE i \in solid : \A j \in solid : j <= i)

\* _count_code_lines
Count_code_lines(content) ==
    LET lines == SplitLines(content)
    IN  Cardinality({i \in 1..Len(lines) :
                        Strip(lines[i]) # <<>> /\ ~StartsWith(Strip(lines[i]), <<"#">>)})

\* the comment lines counted without stripping the line first
Count_comment_lines_Unstripped(content) ==
    LET lines == SplitLines(content)
    IN  Cardinality({i \in 1..Len(lines) : StartsWith(lines[i], <<"#">>)})

\* _count_comment_lines
Count_comment_lines(content) ==
    LET lines == SplitLines(content)
    IN  Cardinality({i \in 1..Len(lines) : StartsWith(Strip(lines[i]), <<"#">>)})

\* _count_blank_lines
Count_blank_lines(content) ==
    LET lines == SplitLines(content)
    IN  Cardinality({i \in 1..Len(lines) : Strip(lines[i]) = <<>>})

\* line_counts: per stripped line, in first-seen order, its line numbers
RECURSIVE Line_counts(_, _, _)
Line_counts(lines, i, line_counts) ==
    IF i > Len(lines) THEN line_counts
    ELSE LET stripped == Strip(lines[i])
         IN  IF stripped # <<>> /\ ~StartsWith(stripped, <<"#">>)
                  /\ Len(stripped) > MinDuplicateLength
             THEN Line_counts(lines, i + 1,
                      DictSet(line_counts, stripped,
                              IF DictHas(line_counts, stripped)
                              THEN Append(DictGet(line_counts, stripped), i)
                              ELSE <<i>>))
             ELSE Line_counts(lines, i + 1, line_counts)

\* _detect_duplicate_code
Detect_duplicate_code(content) ==
    LET line_counts == Line_counts(SplitLines(content), 1, <<>>)
        repeated == SelectSeq(line_counts, LAMBDA e : Len(e[2]) > 1)
    IN  [k \in 1..Len(repeated) |->
            [content |-> IF Len(repeated[k][1]) > MaxShownLength
                         THEN SubSeq(repeated[k][1], 1, MaxShownLength) \o <<".", ".", ".">>
                         ELSE repeated[k][1],
             occurrences |-> repeated[k][2],
             count |-> Len(repeated[k][2])]]

\* the texts of at most n characters
RECURSIVE Texts(_)
Texts(n) ==
    IF n = 0 THEN {<<>>}
    ELSE Texts(n - 1) \cup {Append(t, c) : t \in {u \in Texts(n - 1) : Len(u) = n - 1},
                                           c \in {" ", "#", "x", "\n"}}

x10 == [i \in 1..MinDuplicateLength |-> "x"]
x11 == Append(x10, "x")
x10hash == Append(x10, "#")

\* the lines of the texts drawn line by line: blank, of 10 and of 11
\* characters, indented, a comment
LongLines == {<<>>, x10, x11, <<" ">> \o x11, x10hash, <<"#">> \o x11}

RECURSIVE JoinLines(_)
JoinLines(lines) ==
    IF Len(lines) = 1 THEN lines[1]
    ELSE lines[1] \o <<"\n">> \o JoinLines(Tail(lines))

InitLines ==
    /\ \E content \in Texts(MaxChars)
                        \cup {JoinLines(ls) : ls \in UNION {[1..n -> LongLines] : n \in 2..MaxLines}} :
          tree = [state |-> "text", content |-> content]
    /\ analysis = [state |-> "none"]
    /\ fs = NoFile
    /\ project_root = "p"
    /\ modules = <<>>
    /\ dependency_graph = <<>>
    /\ last = [op |-> "init"]
    /\ ncalls = 0
    /\ nedits = 0
    /\ cycles = <<>>

\* the four line counts analyze_file puts into its result
CountLines ==
    /\ analysis.state = "none"
    /\ analysis' = [state |-> "line_counts",
                    line_count |-> Len(SplitLines(tree.content)),
                    code_lines |-> Count_code_lines(tree.content),
                    comment_lines |-> Count_comment_lines(tree.content),
                    blank_lines |-> Count_blank_lines(tree.content)]
    /\ UNCHANGED <<tree, mapperVars>>

DetectDuplicateCode ==
    /\ analysis.state = "none"
    /\ analysis' = [state |-> "duplicate_code", value |-> Detect_duplicate_code(tree.content)]
    /\ UNCHANGED <<tree, mapperVars>>

NextLines == CountLines \/ DetectDuplicateCode

SpecLines == InitLines /\ [][NextLines]_vars

\* the line numbers at which this line stands in the text, character for
\* character
LineNumbersOf(line) ==
    {i \in 1..Len(SplitLines(tree.content)) : SplitLines(tree.content)[i] = line}

\* a non-blank, non-comment line longer than 10 characters standing more than
\* once in the text
IsDuplicatedLine(line) ==
    /\ Strip(line) # <<>>
    /\ ~StartsWith(Strip(line), <<"#">>)
    /\ Len(line) > MinDuplicateLength
    /\ Cardinality(LineNumbersOf(line)) > 1

\* C21: _detect_duplicate_code reports a line, with all of its line numbers,
\* exactly when the line is non-blank, not a comment, longer than 10
\* characters and stands verbatim more than once in the file.
C21_DuplicatesAreVerbatimRepeats ==
    analysis.state = "duplicate_code" =>
        LET lines == Range(SplitLines(tree.content))
            reported == {Range(analysis.value[k].occurrences) : k \in 1..Len(analysis.value)}
        IN  /\ \A line \in lines : IsDuplicatedLine(line) => LineNumbersOf(line) \in reported
            /\ \A numbers \in reported :
                  \E line \in lines : IsDuplicatedLine(line) /\ numbers = LineNumbersOf(line)

\* C30: code_lines + comment_lines + blank_lines = line_count, every line
\* being counted by exactly one of the three counters.
C30_LineCountersPartition ==
    analysis.state = "line_counts" =>
        /\ analysis.code_lines + analysis.comment_lines + analysis.blank_lines
             = analysis.line_count
        /\ \A i \in 1..Len(SplitLines(tree.content)) :
              LET line == SplitLines(tree.content)[i]
              IN  Count_code_lines(line) + Count_comment_lines(line)
                    + Count_blank_lines(line) = 1

C30_Witness ==
    /\ analysis.state = "line_counts"
    /\ analysis.line_count = 3
    /\ analysis.code_lines = 1
    /\ analysis.comment_lines = 1
    /\ analysis.blank_lines = 1
    /\ tree.content = <<"x", "\n", " ", "#", "\n">>

(***************************************************************************)
(* DependencyMapper._extract_exports on the top-level statements of a      *)
(* module: definitions and assignments; an assignment names its targets    *)
(* and, when its value is a list or tuple display of string constants,     *)
(* the strings.                                                            *)
(***************************************************************************)
MaxBody == 2
\* the largest number of top-level statements of a drawn module

sF == <<"f">>
s_G == <<"_", "g">>
sV == <<"v">>
s__all__ == <<"_", "_", "a", "l", "l", "_", "_">>

DefStmt(kind, name) == [kind |-> kind, name |-> name, targets |-> <<>>,
                        value |-> "none", elts |-> <<>>]

AssignStmt(targets, value, elts) == [kind |-> "Assign", name |-> <<>>, targets |-> targets,
                                     value |-> value, elts |-> elts]

Statements ==
    {DefStmt(k, n) : k \in {"FunctionDef", "AsyncFunctionDef", "ClassDef"}, n \in {sF, s_G}}
    \cup {AssignStmt(<<n>>, "Constant", <<>>) : n \in {sV, s_G}}
    \cup {AssignStmt(<<s__all__>>, "List", e) : e \in {<<sF>>, <<s_G, sV>>}}
    \cup {AssignStmt(<<s__all__>>, "Tuple", <<sF>>)}

\* the first statement of the walk that assigns to the single name __all__
\* (0 if there is none)
First__all__(body) ==
    LET found == {i \in 1..Len(body) : /\ body[i].kind = "Assign"
                                       /\ Len(body[i].targets) = 1
                                       /\ body[i].targets[1] = s__all__}
    IN  IF found = {} THEN 0 ELSE Min(found)

\* the names the second loop appends for one statement
ExportsOf(node) ==
    IF node.kind = "FunctionDef"
    THEN IF ~StartsWith(node.name, <<"_">>) THEN <<node.name>> ELSE <<>>
    ELSE IF node.kind = "ClassDef"
    THEN IF ~StartsWith(node.name, <<"_">>) THEN <<node.name>> ELSE <<>>
    ELSE IF node.kind = "Assign"
    THEN SelectSeq(node.targets, LAMBDA id : ~StartsWith(id, <<"_">>))
    ELSE <<>>

RECURSIVE TopLevelExports(_)
TopLevelExports(body) ==
    IF body = <<>> THEN <<>> ELSE ExportsOf(Head(body)) \o TopLevelExports(Tail(body))

\* _extract_exports
Extract_exports(body) ==
    IF First__all__(body) # 0
    THEN IF body[First__all__(body)].value = "List" THEN body[First__all__(body)].elts
         ELSE <<>>
    ELSE TopLevelExports(body)

InitExports ==
    /\ \E body \in UNION {[1..n -> Statements] : n \in 0..MaxBody} :
          tree = [state |-> "module", body |-> body]
    /\ analysis = [state |-> "none"]
    /\ fs = NoFile
    /\ project_root = "p"
    /\ modules = <<>>
    /\ dependency_graph = <<>>
    /\ last = [op |-> "init"]
    /\ ncalls = 0
    /\ nedits = 0
    /\ cycles = <<>>

ExtractExports ==
    /\ analysis.state = "none"
    /\ analysis' = [state |-> "exports", value |-> Extract_exports(tree.body)]
    /\ UNCHANGED <<tree, mapperVars>>

NextExports == ExtractExports

SpecExports == InitExports /\ [][NextExports]_vars

\* the public names the module defines at top level, in order
RECURSIVE PublicNames(_)
PublicNames(body) ==
    IF body = <<>> THEN <<>>
    ELSE LET node == Head(body)
             names == IF node.kind = "Assign" THEN node.targets ELSE <<node.name>>
         IN  SelectSeq(names, LAMBDA n : n[1] # "_") \o PublicNames(Tail(body))

\* C22: _extract_exports returns the module's __all__ list verbatim when the
\* module defines one, and otherwise exactly the top-level function (of any
\* form), class and variable names that do not start with an underscore.
C22_ExportsAreAllOrPublicNames ==
    analysis.state = "exports" =>
        LET alls == {i \in 1..Len(tree.body) : /\ tree.body[i].kind = "Assign"
                                               /\ s__all__ \in Range(tree.body[i].targets)}
        IN  IF alls # {} THEN \E i \in alls : analysis.value = tree.body[i].elts
            ELSE analysis.value = PublicNames(tree.body)

\* C23: every reported cycle is a closed chain: it ends with the module it
\* starts with, its elements but the last are pairwise distinct, and every
\* two consecutive elements are an internal_deps edge of the graph.
C23_CycleIsClosedChain ==
    last.op = "find_circular_dependencies" =>
        \A n \in 1..Len(cycles) :
            LET cycle == cycles[n]
            IN  /\ Len(cycle) >= 2
                /\ cycle[1] = cycle[Len(cycle)]
                /\ \A i, j \in 1..(Len(cycle) - 1) : cycle[i] = cycle[j] => i = j
                /\ \A i \in 1..(Len(cycle) - 1) :
                      <<cycle[i], cycle[i + 1]>> \in Edges(dependency_graph)

\* the search starts at c, and the cycle it meets does not pass through c
C23_Witness ==
    /\ last.op = "find_circular_dependencies"
    /\ dependency_graph[1][1] = sC
    /\ Edges(dependency_graph) = {<<sC, sA>>, <<sA, sB>>, <<sB, sA>>}
    /\ cycles = <<<<sA, sB, sA>>>>

(***************************************************************************)
(* FunctionExtractor.extract_from_file and extract_from_directory.  A file *)
(* is missing, unreadable, broken or valid; a valid file is the sequence   *)
(* of its function definitions in ast.walk order, each with its name, its  *)
(* decorator (the kinds of the expression's nodes from the outermost in,   *)
(* empty without decorator) and the names it calls, in order.              *)
(***************************************************************************)
MaxFunctions == 2
\* the largest number of function definitions of a drawn file

MaxFiles == 2
\* the largest number of files of a drawn directory

sG == <<"g">>
sH == <<"h">>

Missing == [state |-> "missing", functions |-> <<>>]
UnreadableFile == [state |-> "unreadable", functions |-> <<>>]
BrokenFile == [state |-> "broken", functions |-> <<>>]
ValidFile(functions) == [state |-> "valid", functions |-> functions]

FunctionDefNode(name, decorator, calls) ==
    [name |-> name, decorator |-> decorator, calls |-> calls]

\* _get_decorator_name: decorator.value.id and decorator.func.value.id exist
\* only when the value is a Name
Get_decorator_name(decorator) ==
    IF Head(decorator) = "Name" THEN [raised |-> "none"]
    ELSE IF Head(decorator) = "Attribute"
    THEN IF decorator[2] = "Name" THEN [raised |-> "none"]
         ELSE [raised |-> "AttributeError"]
    ELSE IF Head(decorator) = "Call"
    THEN IF decorator[2] = "Name" THEN [raised |-> "none"]
         ELSE IF decorator[2] = "Attribute"
         THEN IF decorator[3] = "Name" THEN [raised |-> "none"]
              ELSE [raised |-> "AttributeError"]
         ELSE [raised |-> "none"]
    ELSE [raised |-> "none"]

\* the calls of a function with every occurrence kept
Extract_function_calls_WithDuplicates(node) == node.calls

\* _extract_function_calls: list(set(calls)); the order of the list is that
\* of the set's iteration, here the order of first occurrence
Extract_function_calls(node) ==
    LET first == SelectSeq([i \in 1..Len(node.calls) |-> i],
                           LAMBDA i : \A j \in 1..(i - 1) : node.calls[j] # node.calls[i])
    IN  [k \in 1..Len(first) |-> node.calls[first[k]]]

\* _extract_function_documentation
Extract_function_documentation(node) ==
    LET decorated == IF node.decorator = <<>> THEN [raised |-> "none"]
                     ELSE Get_decorator_name(node.decorator)
    IN  IF decorated.raised # "none" THEN [raised |-> decorated.raised]
        ELSE [raised |-> "none",
              value |-> [name |-> node.name,
                         calls_made |-> Extract_function_calls(node),
                         called_by |-> <<>>]]

\* for node in ast.walk(tree): functions[func_doc.signature.name] = func_doc
RECURSIVE ExtractLoop(_, _, _)
ExtractLoop(nodes, i, functions) ==
    IF i > Len(nodes) THEN [raised |-> "none", value |-> functions]
    ELSE LET func_doc == Extract_function_documentation(nodes[i])
         IN  IF func_doc.raised # "none" THEN [raised |-> func_doc.raised]
             ELSE ExtractLoop(nodes, i + 1,
                              DictSet(functions, func_doc.value.name, func_doc.value))

\* _build_call_graph: the calls_made of function i from position j on
RECURSIVE CalledLoop(_, _, _)
CalledLoop(functions, i, j) ==
    IF j > Len(functions[i][2].calls_made) THEN functions
    ELSE LET called_func == functions[i][2].calls_made[j]
         IN  IF DictHas(functions, called_func)
             THEN CalledLoop(DictSet(functions, called_func,
                                     [DictGet(functions, called_func) EXCEPT
                                         !.called_by = Append(@, functions[i][1])]),
                             i, j + 1)
             ELSE CalledLoop(functions, i, j + 1)

RECURSIVE Build_call_graph(_, _)
Build_call_graph(functions, i) ==
    IF i > Len(functions) THEN functions
    ELSE Build_call_graph(CalledLoop(functions, i, 1), i + 1)

\* extract_from_file
Extract_from_file(file) ==
    IF file.state = "missing" THEN [raised |-> "FileNotFoundError"]
    ELSE IF file.state = "unreadable" THEN [raised |-> "FileOperationError"]
    ELSE IF file.state = "broken" THEN [raised |-> "SyntaxError"]
    ELSE LET functions == ExtractLoop(file.functions, 1, <<>>)
         IN  IF functions.raised # "none" THEN [raised |-> functions.raised]
             ELSE [raised |-> "none", value |-> Build_call_graph(functions.value, 1)]

\* extract_from_directory: the loop over python_files from position i
RECURSIVE DirectoryLoop(_, _, _)
DirectoryLoop(python_files, i, all_functions) ==
    IF i > Len(python_files) THEN [raised |-> "none", value |-> all_functions]
    ELSE LET functions == Extract_from_file(python_files[i])
         IN  IF functions.raised = "none"
             THEN DirectoryLoop(python_files, i + 1,
                                DictSet(all_functions, i, functions.value))
             ELSE IF functions.raised \in {"SyntaxError", "FileNotFoundError"}
             THEN DirectoryLoop(python_files, i + 1, all_functions)
             ELSE [raised |-> functions.raised]

Extract_from_directory(python_files) == DirectoryLoop(python_files, 1, <<>>)

Decorators ==
    {<<"Name">>, <<"Attribute", "Name">>, <<"Attribute", "Attribute", "Name">>,
     <<"Call", "Name">>, <<"Call", "Attribute", "Name">>,
     <<"Call", "Attribute", "Attribute", "Name">>, <<"Subscript", "Name">>}

CallChoices == {<<>>, <<sF>>, <<sG, sG>>, <<sG, sF, sG>>, <<sH, sF>>}

\* the files whose functions have no decorator
CallFiles ==
    {ValidFile(functions) :
        functions \in UNION {[1..n -> {FunctionDefNode(name, <<>>, calls) :
                                          name \in {sF, sG}, calls \in CallChoices}] :
                                n \in 0..MaxFunctions}}

\* the files with one decorated function
DecoratorFiles == {ValidFile(<<FunctionDefNode(sF, d, <<>>)>>) : d \in Decorators}

\* the files of the directories of more than one file
DirectoryFiles ==
    {ValidFile(<<FunctionDefNode(sF, <<>>, <<>>)>>),
     ValidFile(<<FunctionDefNode(sF, <<"Attribute", "Attribute", "Name">>, <<>>)>>),
     Missing, UnreadableFile, BrokenFile}

InitExtractor ==
    /\ \E files \in {<<file>> : file \in CallFiles \cup DecoratorFiles
                                             \cup {Missing, UnreadableFile, BrokenFile}}
                      \cup UNION {[1..n -> DirectoryFiles] : n \in 2..MaxFiles} :
          tree = [state |-> "directory", files |-> files]
    /\ analysis = [state |-> "none"]
    /\ fs = NoFile
    /\ project_root = "p"
    /\ modules = <<>>
    /\ dependency_graph = <<>>
    /\ last = [op |-> "init"]
    /\ ncalls = 0
    /\ nedits = 0
    /\ cycles = <<>>

\* extract_from_file on the i-th file of the directory
ExtractFromFile(i) ==
    /\ analysis.state = "none"
    /\ analysis' = [state |-> "extract_from_file", file |-> i,
                    result |-> Extract_from_file(tree.files[i])]
    /\ UNCHANGED <<tree, mapperVars>>

ExtractFromDirectory ==
    /\ analysis.state = "none"
    /\ analysis' = [state |-> "extract_from_directory",
                    result |-> Extract_from_directory(tree.files)]
    /\ UNCHANGED <<tree, mapperVars>>

NextExtractor ==
    \/ \E i \in 1..Len(tree.files) : ExtractFromFile(i)
    \/ ExtractFromDirectory

SpecExtractor == InitExtractor /\ [][NextExtractor]_vars

\* C24: extract_from_directory raises nothing; it returns the functions of
\* exactly the files whose extraction succeeds and skips the others, whatever
\* made them fail.
C24_DirectorySkipsEveryFailure ==
    analysis.state = "extract_from_directory" =>
        /\ analysis.result.raised = "none"
        /\ \A i \in 1..Len(tree.files) :
              LET functions == Extract_from_file(tree.files[i])
              IN  IF functions.raised = "none"
                  THEN /\ DictHas(analysis.result.value, i)
                       /\ DictGet(analysis.result.value, i) = functions.value
                  ELSE ~DictHas(analysis.result.value, i)

\* C25: extract_from_file on a syntactically valid file returns a
\* documentation map and raises nothing, whatever the decorators are.
C25_ValidFileIsExtracted ==
    (analysis.state = "extract_from_file" /\ tree.files[analysis.file].state = "valid") =>
        analysis.result.raised = "none"

\* C27: extract_from_file returns one entry per function definition of the
\* file, also when definitions have the same name.
C27_OneEntryPerDefinition ==
    (analysis.state = "extract_from_file" /\ analysis.result.raised = "none") =>
        Len(analysis.result.value) = Len(tree.files[analysis.file].functions)

\* C29: in the map extract_from_file returns, g is in f.called_by exactly
\* when f is in g.calls_made, and no called_by holds a name twice.
C29_CalledByIsTranspose ==
    (analysis.state = "extract_from_file" /\ analysis.result.raised = "none") =>
        LET functions == analysis.result.value
        IN  \A i \in 1..Len(functions) :
              LET f == functions[i][2]
              IN  /\ \A k \in 1..Len(functions) :
                        LET g == functions[k][2]
                        IN  (functions[k][1] \in Range(f.called_by))
                               <=> (functions[i][1] \in Range(g.calls_made))
                  /\ Range(f.called_by) \subseteq DictKeys(functions)
                  /\ \A a, b \in 1..Len(f.called_by) : f.called_by[a] = f.called_by[b] => a = b

\* f calls g twice and itself, g calls f
C29_Witness ==
    /\ analysis.state = "extract_from_file"
    /\ tree.files[1].functions = <<FunctionDefNode(sF, <<>>, <<sG, sF, sG>>),
                                   FunctionDefNode(sG, <<>>, <<sF>>)>>
    /\ analysis.result.raised = "none"
    /\ DictGet(analysis.result.value, sF).called_by = <<sF, sG>>
    /\ DictGet(analysis.result.value, sG).called_by = <<sF>>

(***************************************************************************)
(* analyze_project on a project with a module a.py next to a package       *)
(* a/__init__.py: two files, one module name.                              *)
(***************************************************************************)
s__init__ == <<"_", "_", "i", "n", "i", "t", "_", "_">>

p_a_init == [root |-> "p", rel |-> <<sA, s__init__>>]

PackagePaths == {p_a, p_a_init, p_b}

PackageContents == {Absent, Source(<<>>), Source(<<Imp(sB, 1)>>),
                    Source(<<Imp(sC, 1), Imp(sA, 2)>>)}

InitPackages ==
    /\ fs \in [PackagePaths -> PackageContents]
    /\ project_root = "p"
    /\ modules = <<>>
    /\ dependency_graph = <<>>
    /\ last = [op |-> "init"]
    /\ ncalls = 0
    /\ nedits = 0
    /\ cycles = <<>>
    /\ AnalyzerIdle

\* analyze_project() on a new mapper, rglob yielding the files in this order
AnalyzePackages(python_files) ==
    /\ last.op = "init"
    /\ LET mods == AnalyzeAll(fs, project_root, modules, python_files)
           graph == Build_dependency_graph(mods)
       IN  /\ modules' = mods
           /\ dependency_graph' = graph
           /\ last' = [op |-> "analyze_project",
                       root |-> project_root,
                       raised |-> "none",
                       value |-> Generate_analysis_report(mods, graph)]
    /\ UNCHANGED <<fs, project_root, ncalls, nedits, cycles, analyzerVars>>

NextPackages ==
    \E python_files \in Orders({p \in PackagePaths : fs[p] # Absent}) :
        AnalyzePackages(python_files)

SpecPackages == InitPackages /\ [][NextPackages]_vars

\* C26: after _build_dependency_graph every analysed module has a graph
\* node of its own holding all of its dependency targets, and the graph has
\* as many nodes as the report counts modules.
C26_OneNodePerModule ==
    (last.op = "analyze_project" /\ ~IsError(last.value)) =>
        /\ Len(dependency_graph) = last.value.summary.total_modules
        /\ \A i \in 1..Len(modules) :
              LET module_info == modules[i][2]
              IN  /\ DictHas(dependency_graph, module_info.name)
                  /\ DictGet(dependency_graph, module_info.name).dependencies
                       = [k \in 1..Len(module_info.dependencies) |->
                             module_info.dependencies[k].target]

(***************************************************************************)
(* FunctionExtractor._parse_docstring, one line of the docstring at a      *)
(* time.  The state of the parse is the position in lines, current_section,*)
(* current_content and parsed; a joined text is kept as the sequence of    *)
(* its lines, None and '' as the empty sequence.                           *)
(***************************************************************************)
MaxDocLines == 3
\* the largest number of lines of a drawn docstring

ParameterHeaders ==
    {<<"a", "r", "g", "s", ":">>,
     <<"a", "r", "g", "u", "m", "e", "n", "t", "s", ":">>,
     <<"p", "a", "r", "a", "m", "e", "t", "e", "r", "s", ":">>,
     <<"p", "a", "r", "a", "m", ":">>}

ReturnsHeaders ==
    {<<"r", "e", "t", "u", "r", "n", "s", ":">>,
     <<"r", "e", "t", "u", "r", "n", ":">>}

RaisesHeaders ==
    {<<"r", "a", "i", "s", "e", "s", ":">>,
     <<"r", "a", "i", "s", "e", ":">>,
     <<"e", "x", "c", "e", "p", "t", ":">>,
     <<"e", "x", "c", "e", "p", "t", "i", "o", "n", "s", ":">>}

ExamplesHeaders ==
    {<<"e", "x", "a", "m", "p", "l", "e", "s", ":">>,
     <<"e", "x", "a", "m", "p", "l", "e", ":">>}

NotesHeaders ==
    {<<"n", "o", "t", "e", "s", ":">>,
     <<"n", "o", "t", "e", ":">>}

\* str.lower on the letters of the drawn lines
Lower(line) ==
    [i \in 1..Len(line) |->
        IF line[i] = "A" THEN "a" ELSE IF line[i] = "R" THEN "r"
        ELSE IF line[i] = "N" THEN "n" ELSE line[i]]

\* line.lower().startswith(headers)
StartsWithAny(line, headers) == \E h \in headers : StartsWith(Lower(line), h)

\* re.match(r'^\s*(\w+)\s*(?:\(([^)]+)\))?\s*:\s*(.+)$', line) on a stripped
\* line without a parenthesised type: a word, a colon, a description
Param_match(line) ==
    \E k \in 2..(Len(line) - 1) :
        /\ line[k] = ":"
        /\ \A j \in 1..(k - 1) : line[j] \notin {":", " ", "(", ")"}
        /\ Strip(SubSeq(line, k + 1, Len(line))) # <<>>

EmptyParsed ==
    [description |-> <<>>, parameters |-> <<>>, returns |-> <<>>,
     raises |-> <<>>, examples |-> <<>>, notes |-> <<>>]

\* _save_current_section
Save_current_section(parsed, section, content) ==
    IF content = <<>> THEN parsed
    ELSE IF section = "description" THEN [parsed EXCEPT !.description = content]
    ELSE IF section = "returns" THEN [parsed EXCEPT !.returns = content]
    ELSE IF section = "raises" THEN [parsed EXCEPT !.raises = @ \o content]
    ELSE IF section = "examples" THEN [parsed EXCEPT !.examples = @ \o content]
    ELSE IF section = "notes" THEN [parsed EXCEPT !.notes = @ \o content]
    ELSE parsed

\* a header line other than the parameters header: save, then switch
SwitchSection(st, section) ==
    [st EXCEPT !.parsed = Save_current_section(st.parsed, st.current_section,
                                               st.current_content),
               !.current_section = section,
               !.current_content = <<>>]

\* the body of the loop over lines, for one line
Parse_line(st, raw) ==
    LET line == Strip(raw)
    IN  IF StartsWithAny(line, ParameterHeaders)
        THEN [st EXCEPT !.parsed = IF st.current_content # <<>>
                                        /\ st.current_section = "description"
                                     THEN [@ EXCEPT !.description = st.current_content]
                                     ELSE @,
                        !.current_section = "parameters",
                        !.current_content = <<>>]
        ELSE IF StartsWithAny(line, ReturnsHeaders) THEN SwitchSection(st, "returns")
        ELSE IF StartsWithAny(line, RaisesHeaders) THEN SwitchSection(st, "raises")
        ELSE IF StartsWithAny(line, ExamplesHeaders) THEN SwitchSection(st, "examples")
        ELSE IF StartsWithAny(line, NotesHeaders) THEN SwitchSection(st, "notes")
        ELSE IF st.current_section = "parameters" /\ Param_match(line)
        THEN LET colon == Min({k \in 1..Len(line) : line[k] = ":"})
             IN  [st EXCEPT !.parsed.parameters =
                     DictSet(@, SubSeq(line, 1, colon - 1),
                             [type |-> "None",
                              description |-> Strip(SubSeq(line, colon + 1, Len(line)))])]
        ELSE IF line # <<>>
        THEN [st EXCEPT !.current_content = Append(@, line)]
        ELSE st

DocLines ==
    {<<"A", "r", "g", "s", ":">>, <<"R", "e", "t", "u", "r", "n", "s", ":">>, <<"n", "o", "t", "e", "s", ":">>,
     <<"t">>, <<"u">>, <<"x", ":", " ", "d">>, <<>>}

InitDocstring ==
    /\ \E ls \in UNION {[1..n -> DocLines] : n \in 1..MaxDocLines} :
          tree = [state |-> "docstring", content |-> JoinLines(ls)]
    /\ analysis = [state |-> "none"]
    /\ fs = NoFile
    /\ project_root = "p"
    /\ modules = <<>>
    /\ dependency_graph = <<>>
    /\ last = [op |-> "init"]
    /\ ncalls = 0
    /\ nedits = 0
    /\ cycles = <<>>

\* _parse_docstring up to its loop; an empty docstring returns {} at once
ParseStart ==
    /\ analysis.state = "none"
    /\ analysis' = [state |-> IF tree.content = <<>> THEN "returned_empty" ELSE "parsing",
                    lines |-> SplitLines(Strip(tree.content)),
                    i |-> 1,
                    current_section |-> "description",
                    current_content |-> <<>>,
                    parsed |-> EmptyParsed]
    /\ UNCHANGED <<tree, mapperVars>>

\* one pass of the loop over lines
ParseLine ==
    /\ analysis.state = "parsing"
    /\ analysis.i <= Len(analysis.lines)
    /\ analysis' = [Parse_line(analysis, analysis.lines[analysis.i]) EXCEPT !.i = @ + 1]
    /\ UNCHANGED <<tree, mapperVars>>

\* after the loop: save the last section and return parsed
ParseEnd ==
    /\ analysis.state = "parsing"
    /\ analysis.i > Len(analysis.lines)
    /\ analysis' = [analysis EXCEPT
                       !.state = "parsed",
                       !.parsed = Save_current_section(analysis.parsed,
                                                       analysis.current_section,
                                                       analysis.current_content)]
    /\ UNCHANGED <<tree, mapperVars>>

NextDocstring == ParseStart \/ ParseLine \/ ParseEnd

SpecDocstring == InitDocstring /\ [][NextDocstring]_vars

IsSectionHeader(raw) ==
    StartsWithAny(Strip(raw), ParameterHeaders \cup ReturnsHeaders \cup RaisesHeaders
                                \cup ExamplesHeaders \cup NotesHeaders)

\* the lines are in the parsed result under this section
IsSaved(parsed, section, content) ==
    IF section = "description" THEN parsed.description = content
    ELSE IF section = "returns" THEN parsed.returns = content
    ELSE IF section = "raises" THEN Range(content) \subseteq Range(parsed.raises)
    ELSE IF section = "examples" THEN Range(content) \subseteq Range(parsed.examples)
    ELSE Range(content) \subseteq Range(parsed.notes)

\* C28: whenever a section header line is read, the lines accumulated for
\* the section being left (description, returns, raises, examples or notes)
\* are in the parsed result after the step.
C28_HeaderSavesSectionLeft ==
    [][(/\ analysis.state = "parsing"
        /\ analysis.i <= Len(analysis.lines)
        /\ IsSectionHeader(analysis.lines[analysis.i])
        /\ analysis.current_section # "parameters"
        /\ analysis.current_content # <<>>)
       => IsSaved(analysis'.parsed, analysis.current_section, analysis.current_content)]_vars

====
